---- MODULE Spec2Model ----
(***************************************************************************)
(* bsv-anchors: append-only Merkle tree (src/src/merkle/tree.ts), the      *)
(* SQLite-backed anchor store (src/src/store/anchor-store.ts,              *)
(* src/src/store/database.ts) and the anchoring flow.                      *)
(*                                                                         *)
(* Hashes are modelled as collision-free terms: a hash is a sequence of    *)
(* integers that spells its own preimage in prefix notation (0 then the    *)
(* leaf data, 1 then the two child hashes).  The empty sequence stands for *)
(* null / undefined / the empty string.                                    *)
(***************************************************************************)
EXTENDS Integers, Sequences, FiniteSets, TLC

\* ------------------------------------------------------------------------
\* Bounds of the model
\* ------------------------------------------------------------------------

\* leaves appended to the stand-alone MerkleTree of SpecTree
MaxTreeLeaves == 17

\* the first MaxVariedLeaves appends of SpecTree take any data of TreeData
MaxVariedLeaves == 5

\* number of distinct leaf data values offered to addLeaf in SpecTree
NumTreeData == 2

TreeData == 1..NumTreeData

\* longest leaf sequence a tree is compared with
MaxCompareLeaves == 4

\* ------------------------------------------------------------------------
\* Generic helpers
\* ------------------------------------------------------------------------

\* null, undefined and '' of the source
Null == <<>>

None == <<>>

Some(x) == <<x>>

RECURSIVE Pow2(_)
Pow2(k) == IF k = 0 THEN 1 ELSE 2 * Pow2(k - 1)

RECURSIVE CeilLog2From(_, _)
CeilLog2From(n, h) == IF Pow2(h) >= n THEN h ELSE CeilLog2From(n, h + 1)

\* Math.ceil(Math.log2(n)) for n >= 1
CeilLog2(n) == CeilLog2From(n, 0)

\* ------------------------------------------------------------------------
\* Hash functions (tree.ts 20-44)
\* ------------------------------------------------------------------------

\* sha256(0x00 || data): data is a sequence of integers
hashLeaf(data) == <<0>> \o data

\* sha256(0x01 || left || right)
hashInternal(left, right) == <<1>> \o left \o right

\* a lone left child promoted unhashed
hashSinglePromote(hash) == hash

hashSingle(hash) == hashInternal(hash, hash)

\* ------------------------------------------------------------------------
\* MerkleTree (tree.ts 59-298): nodes maps <<level, index>> to a hash
\* ------------------------------------------------------------------------

EmptyNodes == [p \in {} |-> Null]

NewMerkleTree == [nodes |-> EmptyNodes, leafCount |-> 0]

\* this.getLevel(level).get(index): undefined when absent
nodeGet(nodes, level, index) ==
  IF <<level, index>> \in DOMAIN nodes THEN nodes[<<level, index>>] ELSE Null

\* this.getLevel(level).set(index, hash)
nodeSet(nodes, level, index, hash) == (<<level, index>> :> hash) @@ nodes

\* Math.floor in place of Math.ceil
getHeightFloor(leafCount) ==
  IF leafCount <= 1 THEN 0
  ELSE IF Pow2(CeilLog2(leafCount)) = leafCount THEN CeilLog2(leafCount)
  ELSE CeilLog2(leafCount) - 1

getHeight(leafCount) == IF leafCount <= 1 THEN 0 ELSE CeilLog2(leafCount)

\* the loop of rebuildPath from `level` upward; threw = the "Invalid tree
\* state" exception
RECURSIVE rebuildLoop(_, _, _, _)
rebuildLoop(nodes, level, currentIndex, height) ==
  IF level >= height THEN [nodes |-> nodes, threw |-> FALSE]
  ELSE LET parentIndex == currentIndex \div 2
           leftChildIndex == parentIndex * 2
           rightChildIndex == leftChildIndex + 1
           leftHash == nodeGet(nodes, level, leftChildIndex)
           rightHash == nodeGet(nodes, level, rightChildIndex)
       IN IF leftHash # Null /\ rightHash # Null
            THEN rebuildLoop(nodeSet(nodes, level + 1, parentIndex,
                                     hashInternal(leftHash, rightHash)),
                             level + 1, parentIndex, height)
          ELSE IF leftHash # Null
            THEN rebuildLoop(nodeSet(nodes, level + 1, parentIndex,
                                     hashSingle(leftHash)),
                             level + 1, parentIndex, height)
          ELSE [nodes |-> nodes, threw |-> TRUE]

rebuildPath(nodes, leafCount, leafIndex) ==
  rebuildLoop(nodes, 0, leafIndex, getHeight(leafCount))

\* addLeafHash: the tree after the call and whether rebuildPath threw
addLeafHash(t, hash) ==
  LET index == t.leafCount
      r == rebuildPath(nodeSet(t.nodes, 0, index, hash), index + 1, index)
  IN [tree |-> [nodes |-> r.nodes, leafCount |-> index + 1],
      index |-> index, hash |-> hash, threw |-> r.threw]

addLeaf(t, data) == addLeafHash(t, hashLeaf(data))

getRoot(t) ==
  IF t.leafCount = 0 THEN Null
  ELSE nodeGet(t.nodes, getHeight(t.leafCount), 0)

\* getState: lastAnchorIndex is the constant -1 ("managed by store")
getState(t) ==
  [rootHash |-> getRoot(t), leafCount |-> t.leafCount, lastAnchorIndex |-> -1]

\* the sibling loop of generateProof
RECURSIVE siblingLoop(_, _, _, _)
siblingLoop(nodes, level, currentIndex, height) ==
  IF level >= height THEN <<>>
  ELSE LET siblingIndex == IF currentIndex % 2 = 0 THEN currentIndex + 1
                           ELSE currentIndex - 1
           entry == IF <<level, siblingIndex>> \in DOMAIN nodes
                      THEN [hash |-> nodes[<<level, siblingIndex>>],
                            position |-> IF currentIndex % 2 = 0 THEN "right"
                                         ELSE "left"]
                    ELSE [hash |-> nodeGet(nodes, level, currentIndex),
                          position |-> "right"]
       IN <<entry>> \o siblingLoop(nodes, level + 1, currentIndex \div 2, height)

\* generateProof: None is the null result
generateProof(t, leafIndex) ==
  IF leafIndex < 0 \/ leafIndex >= t.leafCount THEN None
  ELSE IF getRoot(t) = Null THEN None
  ELSE IF nodeGet(t.nodes, 0, leafIndex) = Null THEN None
  ELSE Some([leafHash |-> nodeGet(t.nodes, 0, leafIndex),
             leafIndex |-> leafIndex,
             siblings |-> siblingLoop(t.nodes, 0, leafIndex,
                                      getHeight(t.leafCount)),
             rootHash |-> getRoot(t)])

RECURSIVE foldSiblings(_, _)
foldSiblings(currentHash, siblings) ==
  IF siblings = <<>> THEN currentHash
  ELSE foldSiblings(IF Head(siblings).position = "left"
                      THEN hashInternal(Head(siblings).hash, currentHash)
                      ELSE hashInternal(currentHash, Head(siblings).hash),
                    Tail(siblings))

\* verifyProof without the final comparison with proof.rootHash
verifyProofSkipsRoot(proof) == foldSiblings(proof.leafHash, proof.siblings) # Null

verifyProof(proof) == foldSiblings(proof.leafHash, proof.siblings) = proof.rootHash

\* the entries of one level map in insertion order, which is index order
RECURSIVE levelNodes(_, _, _)
levelNodes(nodes, level, index) ==
  IF <<level, index>> \notin DOMAIN nodes THEN <<>>
  ELSE <<[level |-> level, index |-> index, hash |-> nodes[<<level, index>>]]>>
       \o levelNodes(nodes, level, index + 1)

\* getAllNodes(): the level maps in insertion order, which is level order
RECURSIVE allNodesFrom(_, _)
allNodesFrom(nodes, level) ==
  IF <<level, 0>> \notin DOMAIN nodes THEN <<>>
  ELSE levelNodes(nodes, level, 0) \o allNodesFrom(nodes, level + 1)

getAllNodes(t) == allNodesFrom(t.nodes, 0)

\* a.level - b.level || a.index - b.index
nodeBefore(a, b) ==
  a.level < b.level \/ (a.level = b.level /\ a.index < b.index)

\* Array.prototype.sort with that comparison (insertion into a sorted list)
RECURSIVE insertNode(_, _)
insertNode(sorted, node) ==
  IF sorted = <<>> THEN <<node>>
  ELSE IF nodeBefore(node, Head(sorted)) THEN <<node>> \o sorted
  ELSE <<Head(sorted)>> \o insertNode(Tail(sorted), node)

RECURSIVE sortNodes(_)
sortNodes(nodes) ==
  IF nodes = <<>> THEN <<>>
  ELSE insertNode(sortNodes(Tail(nodes)), Head(nodes))

\* the loop of fromNodes that loads the nodes into the level maps
RECURSIVE loadNodes(_, _)
loadNodes(map, nodes) ==
  IF nodes = <<>> THEN map
  ELSE loadNodes(nodeSet(map, Head(nodes).level, Head(nodes).index,
                         Head(nodes).hash),
                 Tail(nodes))

\* fromNodes that takes every node for a leaf
fromNodesCountsAll(nodes) ==
  LET sorted == sortNodes(nodes)
  IN [nodes |-> loadNodes(EmptyNodes, sorted), leafCount |-> Len(sorted)]

\* fromNodes(nodes): the leaf count is the number of level-0 nodes
fromNodes(nodes) ==
  LET sorted == sortNodes(nodes)
      leaves == SelectSeq(sorted, LAMBDA n : n.level = 0)
  IN [nodes |-> loadNodes(EmptyNodes, sorted), leafCount |-> Len(leaves)]

\* ------------------------------------------------------------------------
\* Signing (tree.ts 396-441) and canonicalization (tree.ts 308-325)
\* ------------------------------------------------------------------------

\* private keys a verifier may try; the store holds the first
KeySpace == {1, 2}

\* secp.getPublicKey: injective
getPublicKey(privateKeyHex) == privateKeyHex + 100

\* a deterministic signature: it determines the key and the message
sign(message, privateKeyHex) == <<privateKeyHex>> \o message

verify(message, signatureHex, publicKeyHex) ==
  \E k \in KeySpace :
    getPublicKey(k) = publicKeyHex /\ signatureHex = sign(message, k)

\* loadOrCreateKey: the key file of the data directory, the same on every open
keyPair == [privateKey |-> 1, publicKey |-> getPublicKey(1)]

\* JSON of {id, payload, signature, timestamp, type}: the payload and the
\* timestamp of a commitment are one fixed value per id and are carried by
\* the id; the signature string is written with its length
canonicalizeCommitment(c) ==
  <<c.id, Len(c.signature)>> \o c.signature \o <<c.type>>

\* ------------------------------------------------------------------------
\* AnchorDatabase (database.ts): the persisted tables
\* ------------------------------------------------------------------------

\* commitments and anchors are kept in rowid (insertion) order
EmptyDb ==
  [commitments |-> <<>>,
   tree_nodes  |-> EmptyNodes,
   tree_state  |-> [root_hash |-> Null, leaf_count |-> 0, last_anchor_index |-> -1],
   anchors     |-> <<>>]

\* id is the PRIMARY KEY; type 9 stands for a null type and
\* commitments.type is TEXT NOT NULL
insertCommitmentThrows(d, c) ==
  \/ \E i \in DOMAIN d.commitments : d.commitments[i].id = c.id
  \/ c.type = 9

insertCommitment(d, c) ==
  [d EXCEPT !.commitments =
     Append(@, [id |-> c.id, type |-> c.type, signature |-> c.signature,
                leaf_hash |-> c.leafHash, tree_index |-> c.treeIndex])]

rowToCommitment(row) ==
  [id |-> row.id, type |-> row.type, signature |-> row.signature,
   leafHash |-> row.leaf_hash, treeIndex |-> row.tree_index]

\* SELECT ... WHERE id = ?
getCommitment(d, id) ==
  IF \E i \in DOMAIN d.commitments : d.commitments[i].id = id
    THEN Some(rowToCommitment(
           d.commitments[CHOOSE i \in DOMAIN d.commitments : d.commitments[i].id = id]))
  ELSE None

RemoveAt(s, i) == SubSeq(s, 1, i - 1) \o SubSeq(s, i + 1, Len(s))

\* ORDER BY tree_index ASC, rows of equal tree_index in rowid order
RECURSIVE orderByTreeIndex(_)
orderByTreeIndex(rows) ==
  IF rows = <<>> THEN <<>>
  ELSE LET i == CHOOSE i \in DOMAIN rows :
                  \A j \in DOMAIN rows :
                    \/ rows[i].tree_index < rows[j].tree_index
                    \/ (rows[i].tree_index = rows[j].tree_index /\ i <= j)
       IN <<rows[i]>> \o orderByTreeIndex(RemoveAt(rows, i))

getAllCommitments(d) ==
  LET rows == orderByTreeIndex(d.commitments)
  IN [i \in DOMAIN rows |-> rowToCommitment(rows[i])]

getCommitmentCount(d) == Len(d.commitments)

\* INSERT OR REPLACE of every node
saveTreeNodes(d, nodes) == [d EXCEPT !.tree_nodes = nodes @@ @]

getTreeState(d) ==
  [rootHash |-> d.tree_state.root_hash,
   leafCount |-> d.tree_state.leaf_count,
   lastAnchorIndex |-> d.tree_state.last_anchor_index]

saveTreeState(d, state) ==
  [d EXCEPT !.tree_state = [root_hash |-> state.rootHash,
                            leaf_count |-> state.leafCount,
                            last_anchor_index |-> state.lastAnchorIndex]]

\* the anchors table without the UNIQUE constraint on txid
insertAnchorThrowsNoUnique(d, anchor) ==
  \/ \E i \in DOMAIN d.anchors : d.anchors[i].anchorIndex = anchor.anchorIndex
  \/ anchor.rootHash = Null

\* anchors: txid UNIQUE, anchor_index PRIMARY KEY, root_hash NOT NULL
insertAnchorThrows(d, anchor) ==
  \/ \E i \in DOMAIN d.anchors :
       \/ d.anchors[i].txid = anchor.txid
       \/ d.anchors[i].anchorIndex = anchor.anchorIndex
  \/ anchor.rootHash = Null

\* insertAnchor that leaves the previous_anchor column empty
insertAnchorNoPrevious(d, anchor) ==
  [d EXCEPT !.anchors = Append(@, [anchor EXCEPT !.previousAnchor = None])]

insertAnchor(d, anchor) == [d EXCEPT !.anchors = Append(@, anchor)]

\* ORDER BY anchor_index ASC (anchor_index is the primary key)
RECURSIVE orderByAnchorIndex(_)
orderByAnchorIndex(rows) ==
  IF rows = <<>> THEN <<>>
  ELSE LET i == CHOOSE i \in DOMAIN rows :
                  \A j \in DOMAIN rows : rows[i].anchorIndex <= rows[j].anchorIndex
       IN <<rows[i]>> \o orderByAnchorIndex(RemoveAt(rows, i))

getAllAnchors(d) == orderByAnchorIndex(d.anchors)

\* ORDER BY anchor_index DESC LIMIT 1
getLatestAnchor(d) ==
  IF d.anchors = <<>> THEN None
  ELSE Some(getAllAnchors(d)[Len(d.anchors)])

getAnchorByTxid(d, txid) ==
  IF \E i \in DOMAIN d.anchors : d.anchors[i].txid = txid
    THEN Some(d.anchors[CHOOSE i \in DOMAIN d.anchors : d.anchors[i].txid = txid])
  ELSE None

\* UPDATE anchors SET block_height = ? WHERE txid = ?
updateAnchorBlock(d, txid, blockHeight) ==
  [d EXCEPT !.anchors =
     [i \in DOMAIN @ |-> IF @[i].txid = txid
                           THEN [@[i] EXCEPT !.blockHeight = Some(blockHeight)]
                         ELSE @[i]]]

\* The durable states a handler's writes pass through, in order.  Inside
\* db.transaction only the COMMIT is durable; statements run outside a
\* transaction are durable one by one.
transaction(states) == <<states[Len(states)]>>

autocommit(states) == states

\* ------------------------------------------------------------------------
\* AnchorStore (anchor-store.ts)
\* ------------------------------------------------------------------------

\* transaction ids the wallet or the caller may supply
Txids == {1, 2}

\* leaves the in-memory tree of the store may hold
MaxLeaves == 3

\* commitment types offered to commit: 1 is 'agreement', 9 is a null type
InputTypes == {1, 9}

\* the CommitmentType values: 'agreement', 'attestation', 'state', 'custom'
validTypes == {1, 2, 3, 4}

\* type values a caller can hand to commit at run time: 'agreement', a string
\* outside CommitmentType ('foo', 5) and null (9)
RuntimeTypes == {1, 5, 9}

\* concurrent callers of anchor()
Callers == {"a1"}

\* 'commit_' + randomBytes(12): an id no stored commitment has
freshId(d) == Len(d.commitments) + 1

\* the signed commitment of commit() before it enters the tree
newCommitment(id, type) ==
  LET unsigned == [id |-> id, type |-> type, signature |-> <<>>]
  IN [id |-> id, type |-> type,
      signature |-> sign(canonicalizeCommitment(unsigned), keyPair.privateKey)]

\* the writes of commit(): one transaction
commitWrites(d, commitment, t) ==
  LET d1 == insertCommitment(d, commitment)
      d2 == saveTreeState(d1, getState(t))
      d3 == saveTreeNodes(d2, t.nodes)
  IN transaction(<<d1, d2, d3>>)

\* commit(): the tree after addLeaf, whether the call threw, and the
\* durable states of the database when it did not
commit(t, d, id, type) ==
  LET c0 == newCommitment(id, type)
      r == addLeaf(t, canonicalizeCommitment(c0))
      commitment == [id |-> id, type |-> type, signature |-> c0.signature,
                     leafHash |-> r.hash, treeIndex |-> r.index]
  IN [tree |-> r.tree,
      commitment |-> commitment,
      threw |-> r.threw \/ insertCommitmentThrows(d, commitment),
      writes |-> commitWrites(d, commitment, r.tree)]

\* anchors.find(a => a.commitmentCount > treeIndex), last match instead of first
findAnchorLast(anchors, treeIndex) ==
  IF \E i \in DOMAIN anchors : anchors[i].commitmentCount > treeIndex
    THEN Some(anchors[CHOOSE i \in DOMAIN anchors :
                        /\ anchors[i].commitmentCount > treeIndex
                        /\ \A j \in DOMAIN anchors :
                             anchors[j].commitmentCount > treeIndex => j <= i])
  ELSE None

\* anchors.find(a => a.commitmentCount > treeIndex)
findAnchor(anchors, treeIndex) ==
  IF \E i \in DOMAIN anchors : anchors[i].commitmentCount > treeIndex
    THEN Some(anchors[CHOOSE i \in DOMAIN anchors :
                        /\ anchors[i].commitmentCount > treeIndex
                        /\ \A j \in DOMAIN anchors :
                             anchors[j].commitmentCount > treeIndex => i <= j])
  ELSE None

\* prove(): None is the null result
prove(t, d, commitmentId) ==
  LET found == getCommitment(d, commitmentId)
  IN IF found = None THEN None
     ELSE LET commitment == found[1]
              merkleProof == generateProof(t, commitment.treeIndex)
              anchor == findAnchor(getAllAnchors(d), commitment.treeIndex)
          IN IF merkleProof = None THEN None
             ELSE IF anchor = None THEN None
             ELSE Some([commitment |-> commitment,
                        merkleProof |-> merkleProof[1],
                        anchor |-> [txid |-> anchor[1].txid,
                                    blockHeight |-> anchor[1].blockHeight]])

verifyInclusion(proof) ==
  /\ verifyProof(proof.merkleProof)
  /\ hashLeaf(canonicalizeCommitment(proof.commitment)) = proof.merkleProof.leafHash

\* AnchorStore.verify
storeVerify(proof, publicKeyHex) ==
  /\ verifyInclusion(proof)
  /\ verify(canonicalizeCommitment([id |-> proof.commitment.id,
                                    type |-> proof.commitment.type,
                                    signature |-> <<>>]),
            proof.commitment.signature, publicKeyHex)

\* recordAnchor(): whether insertAnchor threw, and the durable states of the
\* database when it did not (two statements, no transaction around them)
recordAnchor(t, d, txid) ==
  LET state == getState(t)
      latestAnchor == getLatestAnchor(d)
      anchor == [txid |-> txid,
                 blockHeight |-> None,
                 rootHash |-> state.rootHash,
                 commitmentCount |-> state.leafCount,
                 anchorIndex |-> (IF latestAnchor = None THEN -1
                                  ELSE latestAnchor[1].anchorIndex) + 1,
                 previousAnchor |-> IF latestAnchor = None THEN None
                                    ELSE Some(latestAnchor[1].txid)]
      d1 == insertAnchor(d, anchor)
      d2 == saveTreeState(d1, [getTreeState(d1) EXCEPT
                                 !.lastAnchorIndex = anchor.anchorIndex])
  IN [anchor |-> anchor,
      threw |-> insertAnchorThrows(d, anchor),
      writes |-> autocommit(<<d1, d2>>)]

\* the database a recordAnchor call leaves: untouched when insertAnchor threw
afterRecordAnchor(t, d, txid) ==
  LET r == recordAnchor(t, d, txid)
  IN IF r.threw THEN d ELSE r.writes[Len(r.writes)]

\* block heights the block explorer may report for a transaction
BlockHeights == {1, 2}

\* results of verifyAnchorOnChain: confirmed with a height above 0, or not
\* confirmed (not found, API error, in the mempool, fetch failure)
Verifications ==
  {[confirmed |-> FALSE, blockHeight |-> None]}
  \cup {[confirmed |-> TRUE, blockHeight |-> Some(h)] : h \in BlockHeights}

\* every shape the { confirmed, blockHeight? } result type admits
VerificationShapes ==
  [confirmed : BOOLEAN, blockHeight : {None} \cup {Some(h) : h \in BlockHeights}]

\* refreshAnchor that writes whatever height the verification carries
refreshAnchorUnguarded(d, txid, verification) ==
  IF getAnchorByTxid(d, txid) = None THEN d
  ELSE [d EXCEPT !.anchors =
          [i \in DOMAIN @ |-> IF @[i].txid = txid
                                THEN [@[i] EXCEPT !.blockHeight =
                                        verification.blockHeight]
                              ELSE @[i]]]

\* refreshAnchor(txid): the database after the call, given what
\* verifyAnchorOnChain returned
refreshAnchor(d, txid, verification) ==
  IF getAnchorByTxid(d, txid) = None THEN d
  ELSE IF verification.confirmed /\ verification.blockHeight # None
    THEN updateAnchorBlock(d, txid, verification.blockHeight[1])
  ELSE d

getUnanchoredCount(d) ==
  LET latestAnchor == getLatestAnchor(d)
  IN IF latestAnchor = None THEN getCommitmentCount(d)
     ELSE getCommitmentCount(d) - latestAnchor[1].commitmentCount

\* DataView.setUint32(0, n, false): four bytes, big-endian (counts are
\* non-negative and below 2^31, where the reduction modulo 2^32 changes nothing)
uint32BE(n) ==
  <<(n \div 16777216) % 256, (n \div 65536) % 256, (n \div 256) % 256, n % 256>>

getUint32BE(b) == b[1] * 16777216 + b[2] * 65536 + b[3] * 256 + b[4]

\* bytes of the previous-anchor field and of a SHA-256 root hash
HashByteLength == 32

\* length parseAnchorPayload accepts
PayloadByteLength == 79

\* new Uint8Array(32): the all-zero previous-anchor field
zeroBytes == [i \in 1..HashByteLength |-> 0]

\* hexToBytes of a txid: txid 1 is a 64-digit hex string (32 bytes 0x01),
\* txid 2 is the 2-digit hex string '02' (recordAnchor takes any string)
txidBytes(txid) ==
  IF txid = 1 THEN [i \in 1..HashByteLength |-> 1] ELSE <<txid>>

\* Buffer.from(bytes).toString('hex') of a previous-anchor field, as a txid
bytesToTxid(bytes) == bytes[1]

\* the payload, field by field
assemblePayload(root, commitmentCount, prev) ==
  [protocol |-> "BSV-ANCHOR",
   version |-> 1,
   rootBytes |-> root,
   countBytes |-> uint32BE(commitmentCount),
   prevBytes |-> IF prev = None THEN zeroBytes ELSE txidBytes(prev[1])]

\* payload.length: 10 + 1 + the root's 32 bytes + 4 + the previous-anchor bytes
payloadLength(payload) == 10 + 1 + HashByteLength + 4 + Len(payload.prevBytes)

\* buildAnchorPayload() called on its own and run without interruption: None
\* is the 'Cannot anchor empty tree' exception
buildAnchorPayload(t, d) ==
  IF getRoot(t) = Null THEN None
  ELSE Some(assemblePayload(getRoot(t), getCommitmentCount(d),
                            IF getLatestAnchor(d) = None THEN None
                            ELSE Some(getLatestAnchor(d)[1].txid)))

\* parseAnchorPayload (integration.ts 284-328)
parseAnchorPayload(payload) ==
  IF payloadLength(payload) # PayloadByteLength
    THEN [valid |-> FALSE, rootHash |-> Null, commitmentCount |-> -1,
          previousAnchor |-> None]
  ELSE [valid |-> TRUE,
        rootHash |-> payload.rootBytes,
        commitmentCount |-> getUint32BE(payload.countBytes),
        previousAnchor |-> IF \A i \in DOMAIN payload.prevBytes :
                                payload.prevBytes[i] = 0
                             THEN None
                           ELSE Some(bytesToTxid(payload.prevBytes))]

\* AnchorStore.open: replay of the stored leaf hashes in tree_index order
RECURSIVE replayLeaves(_, _)
replayLeaves(t, commitments) ==
  IF commitments = <<>> THEN t
  ELSE replayLeaves(IF Head(commitments).leafHash # Null
                      THEN addLeafHash(t, Head(commitments).leafHash).tree
                    ELSE t,
                    Tail(commitments))

openTree(d) == replayLeaves(NewMerkleTree, getAllCommitments(d))

\* the txid broadcastAnchor makes up for a dry run: 'DRY_RUN_' and the time
\* in hex, which is not a hex string
DryRunTxids == {3}

\* broadcastAnchor({dryRun: true}): no wallet or too small a balance, or
\* success with a made-up txid
DryRunBroadcasts ==
  {[success |-> FALSE, txid |-> None]}
  \cup {[success |-> TRUE, txid |-> Some(txid)] : txid \in DryRunTxids}

\* anchor({dryRun: true}) run without interruption, given what broadcastAnchor
\* returned: whether it threw and the database it leaves. hexToBytes throws
\* on a previous anchor whose txid is not a hex string
anchorDryRun(t, d, result) ==
  IF getUnanchoredCount(d) = 0 THEN [threw |-> TRUE, db |-> d]
  ELSE IF buildAnchorPayload(t, d) = None THEN [threw |-> TRUE, db |-> d]
  ELSE IF /\ getLatestAnchor(d) # None
          /\ getLatestAnchor(d)[1].txid \in DryRunTxids
    THEN [threw |-> TRUE, db |-> d]
  ELSE IF ~result.success \/ result.txid = None THEN [threw |-> TRUE, db |-> d]
  ELSE [threw |-> recordAnchor(t, d, result.txid[1]).threw,
        db |-> afterRecordAnchor(t, d, result.txid[1])]

\* ------------------------------------------------------------------------
\* P2P proof handler
\* ------------------------------------------------------------------------

\* calls of onProofReceived followed
MaxReceived == 2

\* leaves of the store whose proofs are pushed
MaxPushLeaves == 2

\* peers that send messages to the handler
PeerIds == {"p1", "p2"}

\* the values of Date.now() at which messages arrive, in milliseconds
Times == {0, 1, 60000}

\* checkRateLimit: the window, one minute
windowMs == 60 * 1000

\* ProofHandlerConfig.rateLimitPerMinute (60 when not configured)
rateLimitPerMinute == 2

\* ProofHandlerConfig.maxProofsPerRequest (50 when not configured)
maxProofsPerRequest == 2

\* ProofHandlerConfig.includePublicKey, at its default
includePublicKey == TRUE

\* the limit handleRequest gives a query that names none
defaultQueryLimit == 50

\* the largest query.limit validateRequest accepts
maxQueryLimit == 100

\* a PROOF_REQUEST; absent fields are None
ProofRequest(requestId, commitmentId, query, requireAnchored) ==
  [type |-> "PROOF_REQUEST", requestId |-> requestId,
   commitmentId |-> commitmentId, query |-> query,
   options |-> [requireAnchored |-> requireAnchored,
                minConfirmations |-> None]]

\* the requests peers send: with neither commitmentId nor query, for one
\* commitment, and queries without a limit and with limit 101
Requests ==
  {ProofRequest(1, None, None, FALSE),
   ProofRequest(2, Some(1), None, FALSE),
   ProofRequest(3, None, Some([type |-> None, limit |-> None]), FALSE),
   ProofRequest(4, None, Some([type |-> None, limit |-> Some(101)]), FALSE)}

\* a query request with the given limit and options
QueryRequest(requestId, limit, requireAnchored, minConfirmations) ==
  [ProofRequest(requestId, None, Some([type |-> None, limit |-> limit]),
                requireAnchored)
     EXCEPT !.options.minConfirmations = minConfirmations]

\* the queries peers send: without a limit, with limit 0, -1 and 1, with
\* minConfirmations 1 and with requireAnchored
QueryRequests ==
  {QueryRequest(11, None, FALSE, None),
   QueryRequest(12, Some(0), FALSE, None),
   QueryRequest(13, Some(-1), FALSE, None),
   QueryRequest(14, Some(1), FALSE, None),
   QueryRequest(15, None, FALSE, Some(1)),
   QueryRequest(16, None, TRUE, None)}

\* the peer that sends them
QueryPeers == {"p1"}

createProofError(code, message, requestId) ==
  [type |-> "PROOF_ERROR", requestId |-> requestId, code |-> code,
   message |-> message]

createProofResponse(requestId, proofs, publicKey) ==
  [type |-> "PROOF_RESPONSE", requestId |-> requestId, proofs |-> proofs,
   publicKey |-> publicKey, total |-> Len(proofs)]

\* validateRequest without the check of query.limit
validateRequestAnyLimit(request) ==
  IF request.commitmentId = None /\ request.query = None
    THEN [valid |-> FALSE, error |-> "Must specify commitmentId or query"]
  ELSE [valid |-> TRUE, error |-> ""]

\* validateRequest: a limit of 0 is falsy and passes
validateRequest(request) ==
  IF request.commitmentId = None /\ request.query = None
    THEN [valid |-> FALSE, error |-> "Must specify commitmentId or query"]
  ELSE IF /\ request.query # None
          /\ request.query[1].limit # None
          /\ request.query[1].limit[1] # 0
          /\ request.query[1].limit[1] > maxQueryLimit
    THEN [valid |-> FALSE, error |-> "Query limit cannot exceed 100"]
  ELSE [valid |-> TRUE, error |-> ""]

\* checkRateLimit that also records the requests it turns away
checkRateLimitCountsRejected(limits, peerId, t) ==
  LET timestamps == SelectSeq(limits[peerId], LAMBDA u : t - u < windowMs)
  IN [passed |-> Len(timestamps) < rateLimitPerMinute,
      rateLimits |-> [limits EXCEPT ![peerId] = Append(timestamps, t)]]

\* checkRateLimit that lets one request more through
checkRateLimitOneMore(limits, peerId, t) ==
  LET timestamps == SelectSeq(limits[peerId], LAMBDA u : t - u < windowMs)
  IN IF Len(timestamps) > rateLimitPerMinute
       THEN [passed |-> FALSE, rateLimits |-> limits]
     ELSE [passed |-> TRUE,
           rateLimits |-> [limits EXCEPT ![peerId] = Append(timestamps, t)]]

\* checkRateLimit(peerId) at Date.now() = t: the answer and the map it leaves;
\* a peer without an entry has the empty list
checkRateLimit(limits, peerId, t) ==
  LET timestamps == SelectSeq(limits[peerId], LAMBDA u : t - u < windowMs)
  IN IF Len(timestamps) >= rateLimitPerMinute
       THEN [passed |-> FALSE, rateLimits |-> limits]
     ELSE [passed |-> TRUE,
           rateLimits |-> [limits EXCEPT ![peerId] = Append(timestamps, t)]]

\* ORDER BY timestamp DESC: the rows were inserted in timestamp order
newestFirst(rows) == [i \in DOMAIN rows |-> rows[Len(rows) + 1 - i]]

\* queryCommitments: a limit of 0 adds no LIMIT, and a negative LIMIT is no
\* limit in SQLite
queryCommitments(d, query) ==
  LET rows == newestFirst(
                SelectSeq(d.commitments,
                          LAMBDA row : query.type = None \/ row.type = query.type[1]))
      found == IF query.limit > 0 /\ query.limit < Len(rows)
                 THEN SubSeq(rows, 1, query.limit)
               ELSE rows
  IN [i \in DOMAIN found |-> rowToCommitment(found[i])]

\* the loop of handleRequest over the commitments a query returned
RECURSIVE proveEach(_, _, _, _)
proveEach(t, d, commitments, requireAnchored) ==
  IF commitments = <<>> THEN <<>>
  ELSE LET proof == prove(t, d, Head(commitments).id)
           rest == proveEach(t, d, Tail(commitments), requireAnchored)
       IN IF proof = None THEN rest
          ELSE IF requireAnchored /\ proof[1].anchor.blockHeight \in {None, Some(0)}
            THEN rest
          ELSE <<proof[1]>> \o rest

\* handleRequest(request, peerId) at Date.now() = t: the reply, the rate-limit
\* map it leaves, whether the limiter let the request through, and the calls
\* it made on the store
handleRequest(t, d, limits, at, request, peerId) ==
  LET limited == checkRateLimit(limits, peerId, at)
      validation == validateRequest(request)
      publicKey == IF includePublicKey THEN Some(keyPair.publicKey) ELSE None
  IN IF ~limited.passed
       THEN [reply |-> createProofError("RATE_LIMITED",
                         "Too many requests. Please slow down.",
                         request.requestId),
             rateLimits |-> limited.rateLimits, passed |-> FALSE,
             storeCalls |-> <<>>]
     ELSE IF ~validation.valid
       THEN [reply |-> createProofError("INVALID_REQUEST", validation.error,
                                        request.requestId),
             rateLimits |-> limited.rateLimits, passed |-> TRUE,
             storeCalls |-> <<>>]
     ELSE IF request.commitmentId # None
       THEN LET proof == prove(t, d, request.commitmentId[1])
            IN [reply |-> createProofResponse(request.requestId, proof, publicKey),
                rateLimits |-> limited.rateLimits, passed |-> TRUE,
                storeCalls |-> <<"prove">>]
     ELSE LET limit == IF request.query[1].limit = None THEN defaultQueryLimit
                       ELSE request.query[1].limit[1]
              query == [type |-> request.query[1].type,
                        limit |-> IF limit < maxProofsPerRequest THEN limit
                                  ELSE maxProofsPerRequest]
              commitments == queryCommitments(d, query)
              proofs == proveEach(t, d, commitments,
                                  request.options.requireAnchored)
          IN [reply |-> createProofResponse(request.requestId, proofs, publicKey),
              rateLimits |-> limited.rateLimits, passed |-> TRUE,
              storeCalls |-> <<"query">> \o [i \in DOMAIN commitments |-> "prove"]]

\* requestId values of outgoing requests
PendingIds == {1, 2}

\* public keys a push may name: the store's own and another
PushKeys == {getPublicKey(k) : k \in KeySpace}

\* a PROOF_PUSH; a message whose proof is not a proof object has None
ProofPush(pushId, proof, publicKey) ==
  [type |-> "PROOF_PUSH", pushId |-> pushId, proof |-> proof,
   publicKey |-> publicKey]

\* what a peer may make of a proof: the proof itself and copies with another
\* leaf hash, root hash, commitment type or signature
proofCopies(proof) ==
  {proof,
   [proof EXCEPT !.merkleProof.leafHash = hashLeaf(<<0>>)],
   [proof EXCEPT !.merkleProof.rootHash = hashSingle(@)],
   [proof EXCEPT !.commitment.type = 2],
   [proof EXCEPT !.commitment.signature = sign(<<0>>, 1)]}

\* the pushes peers send about commitment 1 of a store in state (t, d): one
\* without a proof object and, when the commitment is anchored, the copies of
\* its proof under either key; the pushId tells them apart
Pushes(t, d) ==
  {ProofPush(0, None, keyPair.publicKey)}
  \cup (IF prove(t, d, 1) = None THEN {}
        ELSE {ProofPush(IF c = prove(t, d, 1)[1] THEN k ELSE k + 1000,
                        Some(c), k) :
                c \in proofCopies(prove(t, d, 1)[1]), k \in PushKeys})

\* the peer that sends them
PushPeers == {"p2"}

createProofAck(pushId, accepted, verified, error) ==
  [type |-> "PROOF_ACK", pushId |-> pushId, accepted |-> accepted,
   verified |-> verified, error |-> error]

\* handlePush that notifies the callback of every push
handlePushAlwaysNotifies(push, peerId, callbackThrows) ==
  IF push.proof = None
    THEN [reply |-> createProofAck(push.pushId, FALSE, None,
                                   Some("Verification failed")),
          callbacks |-> <<>>]
  ELSE LET isValid == storeVerify(push.proof[1], push.publicKey)
           callbacks == <<[proof |-> push.proof[1],
                           publicKey |-> push.publicKey,
                           peerId |-> peerId]>>
       IN IF callbackThrows
            THEN [reply |-> createProofAck(push.pushId, FALSE, None,
                                           Some("callback")),
                  callbacks |-> callbacks]
          ELSE [reply |-> createProofAck(push.pushId, TRUE, Some(isValid),
                                         None),
                callbacks |-> callbacks]

\* handlePush(push, peerId): the PROOF_ACK and the calls of onProofReceived.
\* AnchorStore.verify throws on a message without a proof object; the
\* callback is the configured one and may throw
handlePush(push, peerId, callbackThrows) ==
  IF push.proof = None
    THEN [reply |-> createProofAck(push.pushId, FALSE, None,
                                   Some("Verification failed")),
          callbacks |-> <<>>]
  ELSE LET isValid == storeVerify(push.proof[1], push.publicKey)
           callbacks == IF isValid
                          THEN <<[proof |-> push.proof[1],
                                  publicKey |-> push.publicKey,
                                  peerId |-> peerId]>>
                        ELSE <<>>
       IN IF isValid /\ callbackThrows
            THEN [reply |-> createProofAck(push.pushId, FALSE, None,
                                           Some("callback")),
                  callbacks |-> callbacks]
          ELSE [reply |-> createProofAck(push.pushId, TRUE, Some(isValid),
                                         None),
                callbacks |-> callbacks]

\* registerPendingRequest calls followed
MaxRegistrations == 2

\* the promise registerPendingRequest returns, with its timer; settles counts
\* the calls of resolve and reject
NewPromise(requestId) ==
  [requestId |-> requestId, state |-> "pending", reason |-> "",
   timer |-> "armed", settles |-> 0]

\* resolve or reject of a promise: only the first call settles it
settle(proms, reg, state, reason) ==
  [proms EXCEPT ![reg] =
     IF proms[reg].state = "pending"
       THEN [proms[reg] EXCEPT !.state = state, !.reason = reason,
                               !.settles = proms[reg].settles + 1]
     ELSE [proms[reg] EXCEPT !.settles = proms[reg].settles + 1]]

\* clearTimeout: a timer that has fired stays fired
clearTimer(proms, reg) ==
  [proms EXCEPT ![reg].timer = IF @ = "armed" THEN "cleared" ELSE @]

\* registerPendingRequest(requestId): Map.set replaces an entry of the same id
registerPendingRequest(pend, proms, requestId) ==
  [pending |-> [pend EXCEPT ![requestId] = Some(Len(proms) + 1)],
   promises |-> Append(proms, NewPromise(requestId))]

\* handleResponse(response)
handleResponse(pend, proms, requestId) ==
  IF pend[requestId] = None THEN [pending |-> pend, promises |-> proms]
  ELSE [pending |-> [pend EXCEPT ![requestId] = None],
        promises |-> settle(clearTimer(proms, pend[requestId][1]),
                            pend[requestId][1], "resolved", "response")]

\* handleError(error): requestId None is an error without a requestId
handleError(pend, proms, requestId) ==
  IF requestId = None THEN [pending |-> pend, promises |-> proms]
  ELSE IF pend[requestId[1]] = None THEN [pending |-> pend, promises |-> proms]
  ELSE [pending |-> [pend EXCEPT ![requestId[1]] = None],
        promises |-> settle(clearTimer(proms, pend[requestId[1]][1]),
                            pend[requestId[1]][1], "rejected", "error")]

\* the setTimeout callback of a registration: deletes the entry of its
\* requestId and rejects
timeoutFires(pend, proms, reg) ==
  [pending |-> [pend EXCEPT ![proms[reg].requestId] = None],
   promises |-> settle([proms EXCEPT ![reg].timer = "fired"], reg,
                       "rejected", "Request timeout")]

\* ------------------------------------------------------------------------
\* State
\* ------------------------------------------------------------------------

VARIABLES
  status,    \* "open" or "closed": whether a process holds the store open
  tree,      \* the in-memory MerkleTree of the open store
  db,        \* the persisted tables of the data directory
  calls,     \* anchor() calls in flight, by caller
  refreshes, \* refreshAnchor() calls in flight, by caller
  mtree,     \* a stand-alone MerkleTree instance (SpecTree)
  now,       \* Date.now() as the proof handler reads it
  rateLimits, \* ProofHandler.rateLimits: peerId -> timestamps
  passed,    \* by peer, the times of the requests the limiter let through
  handled,   \* the last message handled: peer, request, reply, store calls
  received,  \* the calls of config.onProofReceived, in order
  pending,   \* ProofHandler.pendingRequests: requestId -> registration
  promises   \* the promises registerPendingRequest returned, by registration

\* the state of the proof handler
handlerVars == <<now, rateLimits, passed, handled, received, pending, promises>>

vars == <<status, tree, db, calls, refreshes, mtree, handlerVars>>

IdleCall ==
  [pc |-> "idle", latestCount |-> 0, total |-> 0, root |-> Null,
   prev |-> None, payload |-> None]

\* no refreshAnchor() call in flight; txid 0 stands for none
IdleRefresh == [pc |-> "idle", txid |-> 0]

\* the call rejected: anchor() threw
ThrewCall == [IdleCall EXCEPT !.pc = "threw"]

\* no anchor() call of the caller is in flight
Settled(c) == calls[c].pc \in {"idle", "threw"}

Init ==
  /\ status = "open"
  /\ tree = NewMerkleTree
  /\ db = EmptyDb
  /\ calls = [c \in Callers |-> IdleCall]
  /\ refreshes = [c \in Callers |-> IdleRefresh]
  /\ mtree = NewMerkleTree
  /\ now = 0
  /\ rateLimits = [p \in PeerIds |-> <<>>]
  /\ passed = [p \in PeerIds |-> <<>>]
  /\ handled = None
  /\ received = <<>>
  /\ pending = [id \in PendingIds |-> None]
  /\ promises = <<>>

\* ------------------------------------------------------------------------
\* Store operations
\* ------------------------------------------------------------------------

\* commit(input)
Commit ==
  /\ status = "open"
  /\ tree.leafCount < MaxLeaves
  /\ \E type \in InputTypes :
       LET r == commit(tree, db, freshId(db), type)
       IN /\ tree' = r.tree
          /\ db' = IF r.threw THEN db ELSE r.writes[Len(r.writes)]
  /\ UNCHANGED <<status, calls, refreshes, mtree, handlerVars>>

\* commit(input) with the type a JavaScript caller or the plugin passes on
CommitUntyped ==
  /\ status = "open"
  /\ tree.leafCount < MaxLeaves
  /\ \E type \in RuntimeTypes :
       LET r == commit(tree, db, freshId(db), type)
       IN /\ tree' = r.tree
          /\ db' = IF r.threw THEN db ELSE r.writes[Len(r.writes)]
  /\ UNCHANGED <<status, calls, refreshes, mtree, handlerVars>>

\* recordAnchor(txid), called directly
RecordAnchor ==
  /\ status = "open"
  /\ \E txid \in Txids :
       db' = afterRecordAnchor(tree, db, txid)
  /\ UNCHANGED <<status, tree, calls, refreshes, mtree, handlerVars>>

\* anchor(): getUnanchoredCount reads the latest anchor, then awaits
AnchorCall ==
  /\ status = "open"
  /\ \E c \in Callers :
       /\ Settled(c)
       /\ calls' = [calls EXCEPT ![c] =
            [IdleCall EXCEPT !.pc = "count",
               !.latestCount = IF getLatestAnchor(db) = None THEN 0
                               ELSE getLatestAnchor(db)[1].commitmentCount]]
  /\ UNCHANGED <<status, tree, db, refreshes, mtree, handlerVars>>

\* anchor(): getUnanchoredCount reads the commitment count, then awaits
AnchorCount ==
  /\ status = "open"
  /\ \E c \in Callers :
       /\ calls[c].pc = "count"
       /\ calls' = [calls EXCEPT ![c].pc = "check",
                                 ![c].total = getCommitmentCount(db)]
  /\ UNCHANGED <<status, tree, db, refreshes, mtree, handlerVars>>

\* anchor(): the nothing-to-anchor check, then buildAnchorPayload reads the
\* root and the latest anchor and awaits
AnchorCheck ==
  /\ status = "open"
  /\ \E c \in Callers :
       /\ calls[c].pc = "check"
       /\ calls' = [calls EXCEPT ![c] =
            IF calls[c].total - calls[c].latestCount = 0 THEN ThrewCall
            ELSE IF getRoot(tree) = Null THEN ThrewCall
            ELSE [calls[c] EXCEPT !.pc = "build",
                    !.root = getRoot(tree),
                    !.prev = IF getLatestAnchor(db) = None THEN None
                             ELSE Some(getLatestAnchor(db)[1].txid)]]
  /\ UNCHANGED <<status, tree, db, refreshes, mtree, handlerVars>>

\* anchor(): buildAnchorPayload reads the count and assembles the payload;
\* broadcastAnchor is called with it
AnchorBuild ==
  /\ status = "open"
  /\ \E c \in Callers :
       /\ calls[c].pc = "build"
       /\ calls' = [calls EXCEPT ![c].pc = "broadcast",
            ![c].payload = Some(assemblePayload(calls[c].root,
                                                getCommitmentCount(db),
                                                calls[c].prev))]
  /\ UNCHANGED <<status, tree, db, refreshes, mtree, handlerVars>>

\* anchor() that records the anchor before it looks at result.success
AnchorBroadcastFailsAfterRecord ==
  /\ status = "open"
  /\ \E c \in Callers, txid \in Txids :
       /\ calls[c].pc = "broadcast"
       /\ db' = afterRecordAnchor(tree, db, txid)
       /\ calls' = [calls EXCEPT ![c] = ThrewCall]
  /\ UNCHANGED <<status, tree, refreshes, mtree, handlerVars>>

\* anchor(): the broadcast failed and anchor() throws
AnchorBroadcastFails ==
  /\ status = "open"
  /\ \E c \in Callers :
       /\ calls[c].pc = "broadcast"
       /\ calls' = [calls EXCEPT ![c] = ThrewCall]
  /\ UNCHANGED <<status, tree, db, refreshes, mtree, handlerVars>>

\* anchor(): the wallet returned a txid and recordAnchor(txid) runs
AnchorRecord ==
  /\ status = "open"
  /\ \E c \in Callers, txid \in Txids :
       /\ calls[c].pc = "broadcast"
       /\ db' = afterRecordAnchor(tree, db, txid)
       /\ calls' = [calls EXCEPT ![c] =
            IF recordAnchor(tree, db, txid).threw THEN ThrewCall ELSE IdleCall]
  /\ UNCHANGED <<status, tree, refreshes, mtree, handlerVars>>

\* refreshAnchor(txid) with the answer of the block explorer
RefreshAnchor ==
  /\ status = "open"
  /\ \E txid \in Txids, verification \in Verifications :
       db' = refreshAnchor(db, txid, verification)
  /\ UNCHANGED <<status, tree, calls, refreshes, mtree, handlerVars>>

\* refreshAnchor(txid): getAnchor reads the row; without one the call returns
\* null, with one it goes on to await verifyAnchorOnChain
RefreshCall ==
  /\ status = "open"
  /\ \E c \in Callers, txid \in Txids :
       /\ refreshes[c].pc = "idle"
       /\ refreshes' = [refreshes EXCEPT ![c] =
            IF getAnchorByTxid(db, txid) = None THEN IdleRefresh
            ELSE [pc |-> "verify", txid |-> txid]]
  /\ UNCHANGED <<status, tree, db, calls, mtree, handlerVars>>

\* refreshAnchor(txid): verifyAnchorOnChain answered; the height is written
\* when the transaction is confirmed
RefreshDone ==
  /\ status = "open"
  /\ \E c \in Callers, verification \in Verifications :
       /\ refreshes[c].pc = "verify"
       /\ db' = IF verification.confirmed /\ verification.blockHeight # None
                  THEN updateAnchorBlock(db, refreshes[c].txid,
                                         verification.blockHeight[1])
                ELSE db
       /\ refreshes' = [refreshes EXCEPT ![c] = IdleRefresh]
  /\ UNCHANGED <<status, tree, calls, mtree, handlerVars>>

\* time passes between two messages
Tick ==
  /\ \E t \in Times :
       /\ t > now
       /\ now' = t
  /\ UNCHANGED <<status, tree, db, calls, refreshes, mtree, rateLimits,
                 passed, handled, received, pending, promises>>

\* handleMessage(data, peerId) with a PROOF_REQUEST
HandleRequest ==
  /\ status = "open"
  /\ \E peerId \in PeerIds, request \in Requests :
       LET r == handleRequest(tree, db, rateLimits, now, request, peerId)
       IN /\ rateLimits' = r.rateLimits
          /\ passed' = IF r.passed
                         THEN [passed EXCEPT ![peerId] = Append(@, now)]
                       ELSE passed
          /\ handled' = Some([peerId |-> peerId, request |-> request,
                              reply |-> r.reply, storeCalls |-> r.storeCalls])
  /\ UNCHANGED <<status, tree, db, calls, refreshes, mtree, now, received,
                 pending, promises>>

\* handleMessage(data, peerId) with a PROOF_REQUEST that carries a query
HandleQuery ==
  /\ status = "open"
  /\ \E peerId \in QueryPeers, request \in QueryRequests :
       LET r == handleRequest(tree, db, rateLimits, now, request, peerId)
       IN /\ rateLimits' = r.rateLimits
          /\ passed' = IF r.passed
                         THEN [passed EXCEPT ![peerId] = Append(@, now)]
                       ELSE passed
          /\ handled' = Some([peerId |-> peerId, request |-> request,
                              reply |-> r.reply, storeCalls |-> r.storeCalls])
  /\ UNCHANGED <<status, tree, db, calls, refreshes, mtree, now, received,
                 pending, promises>>

\* handleMessage(data, peerId) with a PROOF_PUSH
HandlePush ==
  /\ status = "open"
  /\ Len(received) < MaxReceived
  /\ \E peerId \in PushPeers, push \in Pushes(tree, db), callbackThrows \in BOOLEAN :
       LET r == handlePush(push, peerId, callbackThrows)
       IN /\ received' = received \o r.callbacks
          /\ handled' = Some([peerId |-> peerId, request |-> push,
                              reply |-> r.reply, storeCalls |-> <<>>])
  /\ UNCHANGED <<status, tree, db, calls, refreshes, mtree, now, rateLimits,
                 passed, pending, promises>>

\* anchor({dryRun: true}), run without interruption
AnchorDryRun ==
  /\ status = "open"
  /\ \E result \in DryRunBroadcasts :
       db' = anchorDryRun(tree, db, result).db
  /\ UNCHANGED <<status, tree, calls, refreshes, mtree, handlerVars>>

\* registerPendingRequest(requestId, timeoutMs)
Register ==
  /\ Len(promises) < MaxRegistrations
  /\ \E requestId \in PendingIds :
       LET r == registerPendingRequest(pending, promises, requestId)
       IN pending' = r.pending /\ promises' = r.promises
  /\ UNCHANGED <<status, tree, db, calls, refreshes, mtree, now, rateLimits,
                 passed, handled, received>>

\* handleMessage or processResponse with a PROOF_RESPONSE
HandleResponse ==
  /\ \E peerId \in PushPeers, requestId \in PendingIds :
       LET r == handleResponse(pending, promises, requestId)
       IN /\ pending' = r.pending
          /\ promises' = r.promises
          /\ handled' = Some([peerId |-> peerId,
                              request |-> [type |-> "PROOF_RESPONSE",
                                           requestId |-> Some(requestId)],
                              reply |-> None, storeCalls |-> <<>>])
  /\ UNCHANGED <<status, tree, db, calls, refreshes, mtree, now, rateLimits,
                 passed, received>>

\* handleMessage or processResponse with a PROOF_ERROR
HandleError ==
  /\ \E peerId \in PushPeers,
        requestId \in {None} \cup {Some(id) : id \in PendingIds} :
       LET r == handleError(pending, promises, requestId)
       IN /\ pending' = r.pending
          /\ promises' = r.promises
          /\ handled' = Some([peerId |-> peerId,
                              request |-> [type |-> "PROOF_ERROR",
                                           requestId |-> requestId],
                              reply |-> None, storeCalls |-> <<>>])
  /\ UNCHANGED <<status, tree, db, calls, refreshes, mtree, now, rateLimits,
                 passed, received>>

\* timeoutMs elapsed for a registration whose timer was not cleared
TimeoutFires(reg) ==
  /\ reg \in DOMAIN promises
  /\ promises[reg].timer = "armed"
  /\ pending' = timeoutFires(pending, promises, reg).pending
  /\ promises' = timeoutFires(pending, promises, reg).promises
  /\ UNCHANGED <<status, tree, db, calls, refreshes, mtree, now, rateLimits,
                 passed, handled, received>>

Timeout == \E reg \in 1..MaxRegistrations : TimeoutFires(reg)

\* close(): no call is in flight
Close ==
  /\ status = "open"
  /\ \A c \in Callers : Settled(c) /\ refreshes[c].pc = "idle"
  /\ status' = "closed"
  /\ calls' = [c \in Callers |-> IdleCall]
  /\ tree' = NewMerkleTree
  /\ UNCHANGED <<db, refreshes, mtree, handlerVars>>

\* AnchorStore.open on the data directory
Open ==
  /\ status = "closed"
  /\ status' = "open"
  /\ tree' = openTree(db)
  /\ UNCHANGED <<db, calls, refreshes, mtree, handlerVars>>

\* the durable states strictly inside a handler's writes
Partial(writes) == {writes[k] : k \in 1..(Len(writes) - 1)}

\* the persisted states a crash may leave: the state between handlers, or a
\* state inside commit or recordAnchor
CrashStates ==
  {db}
  \cup UNION {Partial(commit(tree, db, freshId(db), type).writes) :
                type \in {ty \in InputTypes :
                            ~commit(tree, db, freshId(db), ty).threw}}
  \cup UNION {Partial(recordAnchor(tree, db, txid).writes) :
                txid \in {tx \in Txids : ~recordAnchor(tree, db, tx).threw}}

\* the process dies: memory and calls in flight are lost
Crash ==
  /\ status = "open"
  /\ \E d \in CrashStates : db' = d
  /\ status' = "closed"
  /\ tree' = NewMerkleTree
  /\ calls' = [c \in Callers |-> IdleCall]
  /\ refreshes' = [c \in Callers |-> IdleRefresh]
  /\ UNCHANGED <<mtree, handlerVars>>

\* the store driven by sequential calls: no anchor() in flight
SeqNext ==
  \/ Commit
  \/ RecordAnchor
  \/ Close
  \/ Open
  \/ Crash

SpecSeq == Init /\ [][SeqNext]_vars

\* one open store: commits, recordAnchor calls and anchor() calls in flight
AnchorNext ==
  \/ Commit
  \/ RecordAnchor
  \/ AnchorCall
  \/ AnchorCount
  \/ AnchorCheck
  \/ AnchorBuild
  \/ AnchorBroadcastFails
  \/ AnchorRecord

SpecAnchor == Init /\ [][AnchorNext]_vars

\* one open store: commits, recordAnchor calls and confirmation refreshes
RefreshNext ==
  \/ Commit
  \/ RecordAnchor
  \/ RefreshAnchor

SpecRefresh == Init /\ [][RefreshNext]_vars

\* one open store with commit, recordAnchor and refreshAnchor calls invoked
\* while a refreshAnchor call awaits the block explorer
ConcurrentNext ==
  \/ Commit
  \/ RecordAnchor
  \/ RefreshCall
  \/ RefreshDone

SpecConcurrent == Init /\ [][ConcurrentNext]_vars

\* the store as a library: commit is handed any run-time type value
UntypedNext ==
  \/ CommitUntyped
  \/ RecordAnchor

SpecUntyped == Init /\ [][UntypedNext]_vars

\* nothing has reached the handler yet
Unserved == \A p \in PeerIds : rateLimits[p] = <<>>

\* a proof handler over an open store: the store takes a commit and an
\* anchor, then peers send requests while time passes
HandlerNext ==
  \/ Unserved /\ now = 0 /\ tree.leafCount = 0 /\ Commit
  \/ Unserved /\ now = 0 /\ db.anchors = <<>> /\ RecordAnchor
  \/ Tick
  \/ HandleRequest

SpecHandler == Init /\ [][HandlerNext]_vars

\* a proof handler answering queries over a store that commits and records
\* anchors
QueryNext ==
  \/ Commit
  \/ RecordAnchor
  \/ HandleQuery

SpecQuery == Init /\ [][QueryNext]_vars

\* a proof handler receiving pushes while the store commits and records
\* anchors
PushNext ==
  \/ tree.leafCount < MaxPushLeaves /\ Commit
  \/ RecordAnchor
  \/ HandlePush

SpecPush == Init /\ [][PushNext]_vars

\* a store whose caller commits, previews anchors and records anchors
DryRunNext ==
  \/ Commit
  \/ RecordAnchor
  \/ AnchorDryRun

SpecDryRun == Init /\ [][DryRunNext]_vars

\* a proof handler whose owner registers requests while responses and
\* errors arrive and timers run out
PendingNext ==
  \/ Register
  \/ HandleResponse
  \/ HandleError
  \/ Timeout

SpecPending == Init /\ [][PendingNext]_vars

\* the requests of one peer
RequestFrom(p) == HandleRequest /\ handled'[1].peerId = p

\* a proof handler whose peers keep sending while time passes
LimiterNext ==
  \/ Tick
  \/ HandleRequest

SpecLimiter ==
  /\ Init
  /\ [][LimiterNext]_vars
  /\ WF_vars(Tick)
  /\ \A p \in PeerIds : WF_vars(RequestFrom(p))

Next ==
  \/ Commit
  \/ RecordAnchor
  \/ AnchorCall
  \/ AnchorCount
  \/ AnchorCheck
  \/ AnchorBuild
  \/ AnchorBroadcastFails
  \/ AnchorRecord
  \/ Close
  \/ Open
  \/ Crash

Spec == Init /\ [][Next]_vars

\* ------------------------------------------------------------------------
\* SpecTree: a MerkleTree driven through its public API
\* ------------------------------------------------------------------------

\* data offered to the next append: any of TreeData for the first
\* MaxVariedLeaves leaves, afterwards one value that alternates
NextTreeData(n) ==
  IF n < MaxVariedLeaves THEN TreeData ELSE {1 + (n % NumTreeData)}

TreeAddLeaf ==
  /\ mtree.leafCount < MaxTreeLeaves
  /\ \E data \in NextTreeData(mtree.leafCount) :
       mtree' = addLeaf(mtree, <<data>>).tree
  /\ UNCHANGED <<status, tree, db, calls, refreshes, handlerVars>>

TreeAddLeafHash ==
  /\ mtree.leafCount < MaxTreeLeaves
  /\ \E data \in NextTreeData(mtree.leafCount) :
       mtree' = addLeafHash(mtree, hashLeaf(<<data>>)).tree
  /\ UNCHANGED <<status, tree, db, calls, refreshes, handlerVars>>

TreeNext == TreeAddLeaf \/ TreeAddLeafHash

SpecTree == Init /\ [][TreeNext]_vars

\* ------------------------------------------------------------------------
\* Reference definition of the Merkle root (spec 4.2)
\* ------------------------------------------------------------------------

\* level-0 hashes of a tree in append order
leafHashes(t) == [i \in 1..t.leafCount |-> nodeGet(t.nodes, 0, i - 1)]

\* the next level up: pairs hashed, a missing right child copied from the left
RefParents(level) ==
  [i \in 1..((Len(level) + 1) \div 2) |->
     IF 2 * i <= Len(level) THEN hashInternal(level[2 * i - 1], level[2 * i])
     ELSE hashInternal(level[2 * i - 1], level[2 * i - 1])]

RECURSIVE RefRoot(_)
RefRoot(level) ==
  IF Len(level) = 0 THEN Null
  ELSE IF Len(level) = 1 THEN level[1]
  ELSE RefRoot(RefParents(level))

\* number of levels above level 0 in the reference construction
RECURSIVE RefHeight(_)
RefHeight(level) == IF Len(level) <= 1 THEN 0 ELSE 1 + RefHeight(RefParents(level))

\* ------------------------------------------------------------------------
\* Properties
\* ------------------------------------------------------------------------

\* the stored commitments and the result of prove for each
StoredIds == {db.commitments[i].id : i \in DOMAIN db.commitments}

proofOf(id) == prove(tree, db, id)

\* an anchor row covers a tree index
Covers(a, treeIndex) == a.commitmentCount > treeIndex

AnchorRows == {db.anchors[i] : i \in DOMAIN db.anchors}

\* C1: every proof returned by prove carries the root hash recorded in the
\* anchor it is bound to (the anchor row whose txid is proof.anchor.txid).
ProofRootIsAnchorRoot ==
  \A id \in StoredIds :
    proofOf(id) # None =>
      \A a \in AnchorRows :
        a.txid = proofOf(id)[1].anchor.txid =>
          proofOf(id)[1].merkleProof.rootHash = a.rootHash

\* C2: prove binds a commitment to the anchor of lowest anchorIndex whose
\* commitmentCount exceeds its treeIndex; with two anchors of counts k and
\* k+m, tree indexes below k carry the first txid and those from k to k+m-1
\* the second.
ProveBindsEarliestAnchor ==
  \A id \in StoredIds :
    proofOf(id) # None =>
      LET c == getCommitment(db, id)[1]
          txid == proofOf(id)[1].anchor.txid
          byIndex == getAllAnchors(db)
      IN /\ \E a \in AnchorRows :
              /\ a.txid = txid
              /\ Covers(a, c.treeIndex)
              /\ \A b \in AnchorRows :
                   Covers(b, c.treeIndex) => a.anchorIndex <= b.anchorIndex
         /\ Len(byIndex) = 2 =>
              /\ c.treeIndex < byIndex[1].commitmentCount => txid = byIndex[1].txid
              /\ (/\ byIndex[1].commitmentCount <= c.treeIndex
                  /\ c.treeIndex < byIndex[2].commitmentCount)
                   => txid = byIndex[2].txid

\* C2 witness: two anchors, one commitment bound to the first although the
\* second covers it too, and a later commitment bound to the second.
TwoAnchorsBound ==
  /\ Len(db.anchors) = 2
  /\ \E id1, id2 \in StoredIds :
       /\ proofOf(id1) # None
       /\ proofOf(id2) # None
       /\ proofOf(id1)[1].anchor.txid = getAllAnchors(db)[1].txid
       /\ proofOf(id2)[1].anchor.txid = getAllAnchors(db)[2].txid
       /\ Covers(getAllAnchors(db)[2], getCommitment(db, id1)[1].treeIndex)

\* C3: on an open store prove returns null exactly when the id is not stored
\* or no recorded anchor has commitmentCount above the commitment's treeIndex.
ProveNullIffAbsentOrUnanchored ==
  status = "open" =>
    \A id \in 1..(Len(db.commitments) + 1) :
      (proofOf(id) = None) <=>
        \/ getCommitment(db, id) = None
        \/ ~ \E a \in AnchorRows : Covers(a, getCommitment(db, id)[1].treeIndex)

\* C4: an anchor recorded by anchor() has the rootHash, commitmentCount and
\* previousAnchor that the payload handed to the broadcast encodes.
AnchorRecordsPayloadSnapshot ==
  [][\A c \in Callers :
       (/\ calls[c].pc = "broadcast"
        /\ calls'[c].pc = "idle"
        /\ status' = "open"
        /\ Len(db'.anchors) = Len(db.anchors) + 1)
       => LET a == db'.anchors[Len(db'.anchors)]
              sent == parseAnchorPayload(calls[c].payload[1])
          IN /\ a.rootHash = sent.rootHash
             /\ a.commitmentCount = sent.commitmentCount
             /\ a.previousAnchor = sent.previousAnchor]_vars

\* C5: on an open store every stored commitment covered by an anchor has a
\* proof, and the proof passes verify under the store's public key and
\* verifyInclusion.
CoveredCommitmentsVerify ==
  status = "open" =>
    \A id \in StoredIds :
      (\E a \in AnchorRows : Covers(a, getCommitment(db, id)[1].treeIndex)) =>
        /\ proofOf(id) # None
        /\ storeVerify(proofOf(id)[1], keyPair.publicKey)
        /\ verifyInclusion(proofOf(id)[1])

\* leaf hashes of the persisted commitments in tree_index order
PersistedLeaves ==
  [i \in DOMAIN db.commitments |-> orderByTreeIndex(db.commitments)[i].leaf_hash]

\* C6: in every persisted state, after a commit or after a crash, the stored
\* root hash is the Merkle root of the persisted leaf hashes in tree_index
\* order and the stored leaf count is the number of persisted commitments.
PersistedStateConsistent ==
  /\ db.tree_state.root_hash = RefRoot(PersistedLeaves)
  /\ db.tree_state.leaf_count = Len(db.commitments)

\* C7: open does not succeed on a data directory whose rebuilt root differs
\* from the persisted root hash.
OpenRefusesCorruptStore ==
  [][(/\ status = "closed"
      /\ getRoot(openTree(db)) # db.tree_state.root_hash)
     => status' = "closed"]_vars

\* C8: a store closed and reopened reports the root hash and the leaf count
\* it reported before the close.
ReopenReportsSameState ==
  [][(/\ status = "open"
      /\ status' = "closed"
      /\ db' = db)
     => /\ getRoot(openTree(db')) = getRoot(tree)
        /\ openTree(db').leafCount = tree.leafCount]_vars

\* C9: for every leaf index below the leaf count generateProof returns a
\* proof that verifyProof accepts and whose rootHash is getRoot(); for an
\* index below 0 or from the leaf count on it returns null.
ProofsVerifyForEveryLeaf ==
  /\ \A i \in 0..(mtree.leafCount - 1) :
       /\ generateProof(mtree, i) # None
       /\ verifyProof(generateProof(mtree, i)[1])
       /\ generateProof(mtree, i)[1].rootHash = getRoot(mtree)
  /\ \A i \in {-2, -1, mtree.leafCount, mtree.leafCount + 1} :
       generateProof(mtree, i) = None

\* C9 witness: seventeen leaves, the proof of the last one made of five
\* siblings and accepted.
SeventeenLeavesProved ==
  /\ mtree.leafCount = 17
  /\ generateProof(mtree, 16) # None
  /\ Len(generateProof(mtree, 16)[1].siblings) = 5
  /\ verifyProof(generateProof(mtree, 16)[1])

\* C10: after n >= 1 appends getRoot() is the root of the reference
\* construction, found at level ceil(log2 n); it is the sole leaf hash for
\* n = 1 and h(h(h0,h1), h(h2,h2)) for n = 3.
RootMatchesReference ==
  mtree.leafCount >= 1 =>
    LET h == leafHashes(mtree)
        n == mtree.leafCount
    IN /\ getRoot(mtree) = RefRoot(h)
       /\ getHeight(n) = RefHeight(h)
       /\ getRoot(mtree) = nodeGet(mtree.nodes, RefHeight(h), 0)
       /\ n = 1 => getRoot(mtree) = h[1]
       /\ n = 3 => getRoot(mtree) =
                     hashInternal(hashInternal(h[1], h[2]), hashInternal(h[3], h[3]))

\* C10 witness: three leaves, the root built from a copied right child.
ThreeLeavesRoot ==
  /\ mtree.leafCount = 3
  /\ getRoot(mtree) =
       hashInternal(hashInternal(nodeGet(mtree.nodes, 0, 0), nodeGet(mtree.nodes, 0, 1)),
                    hashInternal(nodeGet(mtree.nodes, 0, 2), nodeGet(mtree.nodes, 0, 2)))
  /\ getRoot(mtree) # Null

\* hash values a tampered proof may carry in place of one of its own: the leaf
\* hash of every datum (0 is a datum no tree holds), the root, a hash of the
\* root, and every hash the proof itself carries
TamperHashes(proof) ==
  {hashLeaf(<<d>>) : d \in 0..NumTreeData}
  \cup {proof.rootHash, hashSingle(proof.rootHash), proof.leafHash}
  \cup {proof.siblings[k].hash : k \in DOMAIN proof.siblings}

\* C11: for every proof generateProof returns, putting a different hash in
\* place of the leaf hash, of any one sibling hash or of the root hash makes
\* verifyProof return false.
TamperedProofRejected ==
  \A i \in 0..(mtree.leafCount - 1) :
    LET p == generateProof(mtree, i)[1]
    IN \A x \in TamperHashes(p) :
         /\ x # p.leafHash => ~verifyProof([p EXCEPT !.leafHash = x])
         /\ x # p.rootHash => ~verifyProof([p EXCEPT !.rootHash = x])
         /\ \A k \in DOMAIN p.siblings :
              x # p.siblings[k].hash =>
                ~verifyProof([p EXCEPT !.siblings[k].hash = x])

\* C11 witness: a five-leaf tree whose last proof is accepted as generated
\* and rejected with its first sibling replaced by another leaf hash.
TamperedSiblingSeen ==
  /\ mtree.leafCount = 5
  /\ verifyProof(generateProof(mtree, 4)[1])
  /\ Len(generateProof(mtree, 4)[1].siblings) = 3
  /\ \E d \in 0..NumTreeData :
       /\ hashLeaf(<<d>>) # generateProof(mtree, 4)[1].siblings[1].hash
       /\ ~verifyProof([generateProof(mtree, 4)[1] EXCEPT
                          !.siblings[1].hash = hashLeaf(<<d>>)])

\* a tree built by appending the hashes of a sequence with addLeafHash
RECURSIVE appendLeafHashes(_, _)
appendLeafHashes(t, hashes) ==
  IF hashes = <<>> THEN t
  ELSE appendLeafHashes(addLeafHash(t, Head(hashes)).tree, Tail(hashes))

\* the leaf-hash sequences of at most MaxCompareLeaves leaves
LeafHashSequences ==
  UNION {[1..n -> {hashLeaf(<<d>>) : d \in TreeData}] : n \in 0..MaxCompareLeaves}

\* C12: a tree built from a leaf-hash sequence different from this tree's,
\* longer or shorter ones included, never has this tree's root.
DifferentLeavesDifferentRoot ==
  mtree.leafCount >= 1 =>
    \A hashes \in LeafHashSequences :
      hashes # leafHashes(mtree) =>
        getRoot(appendLeafHashes(NewMerkleTree, hashes)) # getRoot(mtree)

\* C13: the tree_index values of the persisted commitments are exactly
\* 0..n-1, and a commit that stores a row gives it the number of rows stored
\* before the call.
TreeIndexesContiguous ==
  [][/\ {db'.commitments[i].tree_index : i \in DOMAIN db'.commitments}
          = 0..(Len(db'.commitments) - 1)
     /\ Len(db'.commitments) = Len(db.commitments) + 1 =>
          db'.commitments[Len(db'.commitments)].tree_index = Len(db.commitments)]_vars

\* C14: the recorded anchors have anchorIndex 0..m-1 without gaps; the anchor
\* of index 0 has no previousAnchor and every other one has the txid of the
\* anchor one index below.
AnchorChainDense ==
  LET a == getAllAnchors(db)
  IN \A i \in DOMAIN a :
       /\ a[i].anchorIndex = i - 1
       /\ i = 1 => a[i].previousAnchor = None
       /\ i > 1 => a[i].previousAnchor = Some(a[i - 1].txid)

\* C14 witness: two anchors recorded, the second chained to the first.
TwoAnchorsChained ==
  /\ Len(db.anchors) = 2
  /\ getAllAnchors(db)[2].anchorIndex = 1
  /\ getAllAnchors(db)[2].previousAnchor = Some(getAllAnchors(db)[1].txid)

\* anchorIndex of the latest recorded anchor, -1 when there is none
latestAnchorIndex(d) ==
  IF getLatestAnchor(d) = None THEN -1 ELSE getLatestAnchor(d)[1].anchorIndex

\* C15: every call on the open store keeps the persisted lastAnchorIndex equal
\* to the anchorIndex of the latest recorded anchor (-1 without anchors):
\* recordAnchor advances it and commit leaves it unchanged.
LastAnchorIndexTracksLatest ==
  [][(/\ status = "open"
      /\ status' = "open"
      /\ getTreeState(db).lastAnchorIndex = latestAnchorIndex(db))
     => getTreeState(db').lastAnchorIndex = latestAnchorIndex(db')]_vars

\* C16: over the recorded anchors commitmentCount never decreases as
\* anchorIndex grows.
AnchorCountsMonotone ==
  \A a, b \in AnchorRows :
    a.anchorIndex < b.anchorIndex => a.commitmentCount <= b.commitmentCount

\* C17: every recorded anchor has commitmentCount > 0 and a root hash, and a
\* step of a store that holds no commitment (a recordAnchor call among them)
\* leaves the anchor list and lastAnchorIndex as they were.
AnchorsNeedCommitments ==
  [][/\ \A i \in DOMAIN db'.anchors :
          /\ db'.anchors[i].commitmentCount > 0
          /\ db'.anchors[i].rootHash # Null
     /\ (status = "open" /\ getCommitmentCount(db) = 0) =>
          /\ db'.anchors = db.anchors
          /\ getTreeState(db').lastAnchorIndex = getTreeState(db).lastAnchorIndex]_vars

\* C18: in every persisted state, a crash inside recordAnchor included, a new
\* anchor row comes together with lastAnchorIndex set to its anchorIndex.
AnchorRowAndIndexAtomic ==
  [][Len(db'.anchors) = Len(db.anchors) + 1 =>
       getTreeState(db').lastAnchorIndex
         = db'.anchors[Len(db'.anchors)].anchorIndex]_vars

\* C19: recordAnchor with the txid of a recorded anchor throws and leaves the
\* database (anchor rows and lastAnchorIndex) as it was.
DuplicateTxidRejected ==
  status = "open" =>
    \A txid \in Txids :
      getAnchorByTxid(db, txid) # None =>
        /\ recordAnchor(tree, db, txid).threw
        /\ afterRecordAnchor(tree, db, txid).anchors = db.anchors
        /\ getTreeState(afterRecordAnchor(tree, db, txid)).lastAnchorIndex
             = getTreeState(db).lastAnchorIndex

\* C19 witness: an anchor is recorded, the tree has a root, a txid is still
\* free to record, and recording the used txid again throws.
DuplicateTxidSeen ==
  /\ status = "open"
  /\ getRoot(tree) # Null
  /\ \E txid, other \in Txids :
       /\ getAnchorByTxid(db, txid) # None
       /\ ~recordAnchor(tree, db, other).threw
       /\ recordAnchor(tree, db, txid).threw

\* C20: buildAnchorPayload returns no payload when the tree is empty, and none
\* when the commitment count equals the latest anchor's commitmentCount.
PayloadRefusedWithoutNewCommitments ==
  status = "open" =>
    /\ tree.leafCount = 0 => buildAnchorPayload(tree, db) = None
    /\ (/\ getLatestAnchor(db) # None
        /\ getCommitmentCount(db) = getLatestAnchor(db)[1].commitmentCount)
         => buildAnchorPayload(tree, db) = None

\* C21: a payload buildAnchorPayload returns has 79 bytes: 'BSV-ANCHOR', the
\* version byte 1, the current root, the current leafCount as a big-endian
\* 32-bit number, and the 32 raw bytes of the latest anchor's txid (all zero
\* without an anchor).
PayloadLayout ==
  status = "open" =>
    (buildAnchorPayload(tree, db) # None =>
       LET payload == buildAnchorPayload(tree, db)[1]
       IN /\ payloadLength(payload) = PayloadByteLength
          /\ payload.protocol = "BSV-ANCHOR"
          /\ payload.version = 1
          /\ payload.rootBytes = getRoot(tree)
          /\ Len(payload.countBytes) = 4
          /\ getUint32BE(payload.countBytes) = tree.leafCount
          /\ Len(payload.prevBytes) = HashByteLength
          /\ getLatestAnchor(db) = None => payload.prevBytes = zeroBytes
          /\ getLatestAnchor(db) # None =>
               payload.prevBytes = txidBytes(getLatestAnchor(db)[1].txid))

\* C22: a step of an anchor() call other than the successful recording changes
\* neither the database nor the tree, so a call that throws (nothing to
\* anchor, empty tree, wallet or broadcast failure) leaves the store as it was.
AnchorFailureLeavesStore ==
  [][\A c \in Callers :
       (/\ status' = "open"
        /\ calls'[c] # calls[c]
        /\ ~(calls[c].pc = "broadcast" /\ calls'[c].pc = "idle"))
       => /\ db' = db
          /\ tree' = tree]_vars

\* C22 witness: an anchor() call has thrown on a store that holds an anchor
\* and commitments the anchor does not cover.
AnchorCallThrew ==
  /\ \E c \in Callers : calls[c].pc = "threw"
  /\ Len(db.anchors) = 1
  /\ getUnanchoredCount(db) > 0

\* C23: an anchor that has a blockHeight keeps one: no step unsets it, and no
\* refreshAnchor call does, whatever the external check returned (not
\* confirmed, confirmed without a height, or a failure).
BlockHeightNeverUnset ==
  [][/\ \A i \in DOMAIN db.anchors :
          db.anchors[i].blockHeight # None => db'.anchors[i].blockHeight # None
     /\ \A txid \in Txids, verification \in VerificationShapes :
          \A i \in DOMAIN db.anchors :
            db.anchors[i].blockHeight # None =>
              refreshAnchor(db, txid, verification).anchors[i].blockHeight # None]_vars

\* C23 witness: two anchors, the first confirmed at a height, the second
\* recorded and not confirmed.
ConfirmedAndRecordedAnchors ==
  /\ Len(db.anchors) = 2
  /\ getAllAnchors(db)[1].blockHeight # None
  /\ getAllAnchors(db)[2].blockHeight = None

\* C24: an anchor confirmed at blockHeight h has blockHeight h in every later
\* state.
ConfirmedHeightIsFinal ==
  [][\A i \in DOMAIN db.anchors :
       db.anchors[i].blockHeight # None =>
         db'.anchors[i].blockHeight = db.anchors[i].blockHeight]_vars

\* C25: getUnanchoredCount() counts the commits since the latest recordAnchor:
\* it is never negative, it is 0 right after an anchor is recorded, and a
\* commit that stores a commitment raises it by one.
UnanchoredCountTracksCommits ==
  [][status' = "open" =>
       /\ getUnanchoredCount(db') >= 0
       /\ Len(db'.anchors) = Len(db.anchors) + 1 => getUnanchoredCount(db') = 0
       /\ (/\ Len(db'.commitments) = Len(db.commitments) + 1
           /\ db'.anchors = db.anchors)
            => getUnanchoredCount(db') = getUnanchoredCount(db) + 1]_vars

\* the tree and database each call leaves when it runs alone from (t, d)
SerialOutcomes(t, d) ==
  {[tree |-> commit(t, d, freshId(d), type).tree,
    db |-> IF commit(t, d, freshId(d), type).threw THEN d
           ELSE commit(t, d, freshId(d), type).writes[
                  Len(commit(t, d, freshId(d), type).writes)]] :
     type \in InputTypes}
  \cup {[tree |-> t, db |-> afterRecordAnchor(t, d, txid)] : txid \in Txids}
  \cup {[tree |-> t, db |-> refreshAnchor(d, txid, verification)] :
          txid \in Txids, verification \in Verifications}

\* C26: with calls interleaved, every change of the store is the whole effect
\* of one call run alone at that point (the calls are serialized), and the
\* treeIndex values the commits received are distinct and contiguous.
CallsSerialized ==
  [][/\ (db' # db \/ tree' # tree) =>
          [tree |-> tree', db |-> db'] \in SerialOutcomes(tree, db)
     /\ \A i, j \in DOMAIN db'.commitments :
          /\ i # j => db'.commitments[i].tree_index # db'.commitments[j].tree_index
          /\ i < j => \A k \in (db'.commitments[i].tree_index + 1)
                                 ..(db'.commitments[j].tree_index - 1) :
                        \E m \in DOMAIN db'.commitments :
                          db'.commitments[m].tree_index = k]_vars

\* C27: a commit whose transaction throws stores nothing and leaves the
\* in-memory tree as it was: leafCount and root are those before the call and
\* equal the persisted leaf count and root, so the next treeIndex is the
\* number of persisted commitments.
FailedCommitLeavesTree ==
  [][(/\ status = "open"
      /\ status' = "open"
      /\ db' = db)
     => /\ tree'.leafCount = tree.leafCount
        /\ getRoot(tree') = getRoot(tree)
        /\ tree'.leafCount = getCommitmentCount(db')
        /\ getRoot(tree') = getTreeState(db').rootHash]_vars

\* C28: a commit whose type is outside the closed set of commitment types
\* changes nothing: no commitment is stored and the tree keeps its root and
\* leafCount.
InvalidTypeRejected ==
  [][\A type \in RuntimeTypes \ validTypes :
       LET r == commit(tree, db, freshId(db), type)
       IN (/\ status = "open"
           /\ tree' = r.tree
           /\ db' = IF r.threw THEN db ELSE r.writes[Len(r.writes)])
          => /\ db'.commitments = db.commitments
             /\ getRoot(tree') = getRoot(tree)
             /\ tree'.leafCount = tree.leafCount]_vars

\* the requests of peer p let through in the window that ends at time t
passedWithin(log, p, t) ==
  Cardinality({i \in DOMAIN log[p] : t - log[p][i] < windowMs})

\* a step that handled a message
Handles == handled' # handled \/ rateLimits' # rateLimits \/ passed' # passed

\* C29: the limiter counts per peer over a sliding window of 60 seconds: a
\* request passes exactly when fewer than rateLimitPerMinute requests of the
\* same peer passed within the last 60 seconds, so no 60 seconds hold more
\* passes of a peer than that; a request that does not pass is answered with
\* PROOF_ERROR RATE_LIMITED without a call on the store; and what other peers
\* sent changes neither the answer nor the peer's record.
RateLimitPerPeer ==
  [][Handles =>
       LET p == handled'[1].peerId
           full == passedWithin(passed, p, now) >= rateLimitPerMinute
       IN /\ full => /\ handled'[1].reply.type = "PROOF_ERROR"
                     /\ handled'[1].reply.code = "RATE_LIMITED"
                     /\ handled'[1].storeCalls = <<>>
                     /\ passed' = passed
          /\ ~full => /\ handled'[1].reply.type = "PROOF_ERROR" =>
                           handled'[1].reply.code # "RATE_LIMITED"
                      /\ passed'[p] = Append(passed[p], now)
          /\ \A q \in PeerIds \ {p} :
               passed'[q] = passed[q] /\ rateLimits'[q] = rateLimits[q]
          /\ \A q \in PeerIds : \A i \in DOMAIN passed'[q] :
               Cardinality({j \in DOMAIN passed'[q] :
                              /\ passed'[q][j] >= passed'[q][i]
                              /\ passed'[q][j] < passed'[q][i] + windowMs})
                 <= rateLimitPerMinute]_vars

\* C29 witness: a peer is answered RATE_LIMITED after its earlier requests of
\* the window passed, while the other peer has requests let through
RateLimitedSeen ==
  /\ handled # None
  /\ handled[1].reply.type = "PROOF_ERROR"
  /\ handled[1].reply.code = "RATE_LIMITED"
  /\ now = 60000
  /\ \E q \in PeerIds \ {handled[1].peerId} : passed[q] # <<>>

\* neither commitmentId nor query, or a query.limit above 100
invalidRequest(request) ==
  \/ request.commitmentId = None /\ request.query = None
  \/ /\ request.query # None
     /\ request.query[1].limit # None
     /\ request.query[1].limit[1] > maxQueryLimit

\* C30 as stated: a request with neither commitmentId nor query, or with a
\* query.limit above 100, is answered with PROOF_ERROR INVALID_REQUEST that
\* carries its requestId, without a call on the store and without a change
\* of the store.
InvalidRequestRejected ==
  [][(Handles /\ invalidRequest(handled'[1].request))
     => /\ handled'[1].reply.type = "PROOF_ERROR"
        /\ handled'[1].reply.code = "INVALID_REQUEST"
        /\ handled'[1].reply.requestId = handled'[1].request.requestId
        /\ handled'[1].storeCalls = <<>>
        /\ UNCHANGED <<status, tree, db>>]_vars

\* C30 amended: such a request is answered with PROOF_ERROR carrying its
\* requestId, with code INVALID_REQUEST when the rate limiter lets it through
\* (and the limiter then counts it) and with code RATE_LIMITED when the peer
\* has used up its window; either way without a call on the store and
\* without a change of the store.
InvalidRequestRejectedUnlessLimited ==
  [][(Handles /\ invalidRequest(handled'[1].request))
     => /\ handled'[1].reply.type = "PROOF_ERROR"
        /\ handled'[1].reply.code =
             IF passedWithin(passed, handled'[1].peerId, now) < rateLimitPerMinute
               THEN "INVALID_REQUEST" ELSE "RATE_LIMITED"
        /\ passedWithin(passed, handled'[1].peerId, now) < rateLimitPerMinute
             => passed' # passed
        /\ handled'[1].reply.requestId = handled'[1].request.requestId
        /\ handled'[1].storeCalls = <<>>
        /\ UNCHANGED <<status, tree, db>>]_vars

\* C30 witness: a query with limit 101 was answered INVALID_REQUEST by a
\* handler whose store holds an anchored commitment
InvalidLimitSeen ==
  /\ handled # None
  /\ handled[1].request.query # None
  /\ invalidRequest(handled[1].request)
  /\ handled[1].reply.code = "INVALID_REQUEST"
  /\ prove(tree, db, 1) # None

\* C31: a PROOF_RESPONSE to a request that carries a query holds at most
\* maxProofsPerRequest proofs, whatever the query's limit.
ResponseProofsCapped ==
  (/\ handled # None
   /\ handled[1].request.query # None
   /\ handled[1].reply.type = "PROOF_RESPONSE")
  => Len(handled[1].reply.proofs) <= maxProofsPerRequest

\* C32: a response to a request with options.minConfirmations above 0 holds
\* no proof bound to an anchor without a block height, which has no
\* confirmation.
MinConfirmationsDropsUnconfirmed ==
  (/\ handled # None
   /\ handled[1].request.options.minConfirmations # None
   /\ handled[1].request.options.minConfirmations[1] > 0
   /\ handled[1].reply.type = "PROOF_RESPONSE")
  => \A i \in DOMAIN handled[1].reply.proofs :
       handled[1].reply.proofs[i].anchor.blockHeight # None

\* a step that handled a PROOF_PUSH
HandlesPush ==
  /\ (handled' # handled \/ received' # received)
  /\ handled'[1].request.type = "PROOF_PUSH"

\* C33: the PROOF_ACK for a push whose proof fails the verification (Merkle
\* inclusion, leaf hash of the commitment, signature under the pushed key)
\* has accepted = false.
FailedPushNotAccepted ==
  [][(/\ HandlesPush
      /\ handled'[1].request.proof # None
      /\ ~storeVerify(handled'[1].request.proof[1],
                      handled'[1].request.publicKey))
     => handled'[1].reply.accepted = FALSE]_vars

\* C36: onProofReceived is called for a push only when AnchorStore.verify
\* returned true for it, at most once, and with that push's proof, key and
\* peer; a push that fails the verification or on which verify throws is
\* not handed to the callback.
CallbackOnlyForVerifiedPush ==
  [][HandlesPush =>
       LET push == handled'[1].request
           verified == /\ push.proof # None
                       /\ storeVerify(push.proof[1], push.publicKey)
       IN /\ verified =>
               received' = Append(received,
                                  [proof |-> push.proof[1],
                                   publicKey |-> push.publicKey,
                                   peerId |-> handled'[1].peerId])
          /\ ~verified => received' = received]_vars

\* C36 witness: the callback has been called for a verified push, and the
\* last push, which failed the verification, was not handed to it
CallbackCalledAndWithheld ==
  /\ Len(received) = 1
  /\ handled # None
  /\ handled[1].request.type = "PROOF_PUSH"
  /\ handled[1].request.proof # None
  /\ ~storeVerify(handled[1].request.proof[1], handled[1].request.publicKey)

\* C34: a tree of at least one leaf restored by fromNodes(getAllNodes()) has
\* the root and the leaf count of the original and of the tree rebuilt by
\* appending the leaf hashes in order with addLeafHash, and generateProof on
\* it gives a proof that verifyProof accepts for every leaf index.
RestoredTreeEquivalent ==
  mtree.leafCount >= 1 =>
    LET restored == fromNodes(getAllNodes(mtree))
        replayed == appendLeafHashes(NewMerkleTree, leafHashes(mtree))
    IN /\ getRoot(restored) = getRoot(mtree)
       /\ restored.leafCount = mtree.leafCount
       /\ getRoot(restored) = getRoot(replayed)
       /\ restored.leafCount = replayed.leafCount
       /\ \A i \in 0..(mtree.leafCount - 1) :
            /\ generateProof(restored, i) # None
            /\ verifyProof(generateProof(restored, i)[1])
            /\ generateProof(restored, i)[1].rootHash = getRoot(mtree)

\* C34 witness: a tree of seven leaves, whose node list holds internal nodes
\* of three levels, was restored
SevenLeavesRestored ==
  /\ mtree.leafCount = 7
  /\ Len(getAllNodes(mtree)) > 7
  /\ fromNodes(getAllNodes(mtree)).leafCount = 7

\* C35: anchor({dryRun: true}) records nothing: the anchor list, the stored
\* last anchor index, getUnanchoredCount() and the result of prove for every
\* commitment are after the call what they were before it.
DryRunRecordsNothing ==
  [][\A result \in DryRunBroadcasts :
       (/\ status = "open"
        /\ tree' = tree
        /\ db' = anchorDryRun(tree, db, result).db)
       => /\ getAllAnchors(db') = getAllAnchors(db)
          /\ getTreeState(db').lastAnchorIndex = getTreeState(db).lastAnchorIndex
          /\ getUnanchoredCount(db') = getUnanchoredCount(db)
          /\ \A i \in DOMAIN db.commitments :
               prove(tree', db', db.commitments[i].id)
                 = prove(tree, db, db.commitments[i].id)]_vars

\* the hashes of all nodes of a tree
nodeHashes(t) == {t.nodes[k] : k \in DOMAIN t.nodes}

\* proofs a prover can put together from a tree: a genuine proof with any
\* node hash of the tree in place of the leaf hash and with the first
\* siblings dropped
RecutProofs(t) ==
  {[generateProof(t, i)[1] EXCEPT
      !.leafHash = h,
      !.siblings = SubSeq(@, k + 1, Len(@))] :
     i \in 0..(t.leafCount - 1), h \in nodeHashes(t), k \in 0..getHeight(t.leafCount)}

\* C37: verifyProof accepts a proof whose rootHash is the root of the tree
\* only when its leafHash is one of the level-0 hashes of the tree; the hash
\* of an internal node is not accepted as a leaf.
OnlyLeavesAccepted ==
  \A proof \in RecutProofs(mtree) :
    (proof.rootHash = getRoot(mtree) /\ verifyProof(proof))
    => \E i \in 1..mtree.leafCount : leafHashes(mtree)[i] = proof.leafHash

\* C38: a registered request is settled at most once, by whichever comes
\* first: the first PROOF_RESPONSE with its requestId resolves it, the first
\* PROOF_ERROR with its requestId rejects it, its timer rejects it with
\* 'Request timeout'. It is in the pending set exactly while it is not
\* settled, and a response, error or timer that comes later changes nothing.
PendingSettledByFirst ==
  [][/\ \A reg \in DOMAIN promises' :
          /\ promises'[reg].settles <= 1
          /\ promises'[reg].state = "pending"
               <=> pending'[promises'[reg].requestId] = Some(reg)
     /\ \A reg \in DOMAIN promises :
          /\ promises[reg].state # "pending" => promises'[reg] = promises[reg]
          /\ (/\ promises[reg].state = "pending"
              /\ handled' # handled
              /\ handled'[1].request.requestId = Some(promises[reg].requestId))
             => /\ handled'[1].request.type = "PROOF_RESPONSE"
                     => promises'[reg].state = "resolved"
                /\ handled'[1].request.type = "PROOF_ERROR"
                     => promises'[reg].state = "rejected"
          /\ (promises[reg].timer = "armed" /\ promises'[reg].timer = "fired")
             => /\ promises'[reg].state = "rejected"
                /\ promises'[reg].reason = "Request timeout"
                /\ \A other \in DOMAIN promises \ {reg} :
                     promises'[other] = promises[other]]_vars

\* the last request handled came from peer p and was answered RATE_LIMITED
limited(p) ==
  /\ handled # None
  /\ handled[1].peerId = p
  /\ handled[1].reply.type = "PROOF_ERROR"
  /\ handled[1].reply.code = "RATE_LIMITED"

\* the last request handled came from peer p and passed the limiter
served(p) ==
  /\ handled # None
  /\ handled[1].peerId = p
  /\ ~(handled[1].reply.type = "PROOF_ERROR"
       /\ handled[1].reply.code = "RATE_LIMITED")

\* C39: a request answered RATE_LIMITED leaves the peer's record as it was,
\* and a request passes whenever fewer than rateLimitPerMinute requests of
\* the peer passed within the last 60 seconds; so a limited peer that keeps
\* sending is served again once the clock reaches a time at which its window
\* has room.
RejectedRequestsCostNothing ==
  /\ [][Handles =>
          \A p \in PeerIds :
            /\ limited(p)' => rateLimits' = rateLimits /\ passed' = passed
            /\ handled'[1].peerId = p
                 /\ passedWithin(passed, p, now) < rateLimitPerMinute
               => served(p)']_vars
  /\ \A p \in PeerIds :
       (limited(p) /\ \E t \in Times :
                        t >= now /\ passedWithin(passed, p, t) < rateLimitPerMinute)
         ~> served(p)

\* C39 witness: a peer is turned away at time 0, with the end of its window
\* still to come
LimitedBeforeWindowEnds ==
  \E p \in PeerIds :
    /\ limited(p)
    /\ now = 0
    /\ passedWithin(passed, p, now) = rateLimitPerMinute
    /\ \E t \in Times : passedWithin(passed, p, t) < rateLimitPerMinute

====
